---- MODULE Spec2Model ----
(***************************************************************************)
(* Model of test-demucs.py: a diagnostic script that writes one second of  *)
(* stereo silence to test_output.wav through every torchaudio backend and  *)
(* then through soundfile directly.  Every library call is a step whose    *)
(* outcome (return or raise) is chosen by the environment.  The variable   *)
(* log records, in program order, every library call with its outcome and  *)
(* every line printed to standard output.                                  *)
(***************************************************************************)
EXTENDS Integers, Sequences, FiniteSets, TLC

\* Largest number of backends torchaudio.list_audio_backends() returns.
MaxBackends == 2

\* The backend identifiers torchaudio knows.
BackendNames == {"ffmpeg", "sox", "soundfile"}

\* Placeholder for the backend field of a log entry that names no backend.
None == "-"

\* Tag of the direct soundfile attempt in the backend field of a log entry.
Direct == "direct"

VARIABLES
    pc,          \* the statement about to run
    backends,    \* what torchaudio.list_audio_backends() returns here
    i,           \* number of backends the for loop has taken so far
    fileExists,  \* whether test_output.wav is on disk
    log          \* calls made and lines printed so far

vars == <<pc, backends, i, fileExists, log>>

\* A log entry: a library call with its outcome, or a printed line.
Entry(k, b, ok) == [k |-> k, b |-> b, ok |-> ok]
Call(k, b, ok) == Entry(k, b, ok)
Line(k, b) == Entry(k, b, TRUE)

\* The lists of distinct backend names of length at most MaxBackends.
BackendLists ==
    {s \in UNION {[1..n -> BackendNames] : n \in 0..MaxBackends} :
        \A p, q \in DOMAIN s : p # q => s[p] # s[q]}

\* The backend of the current iteration of the for loop.
backend == backends[i]

----------------------------------------------------------------------------
(* The two handlers. *)

\* Line 37-38: except Exception as e: print(f"Error: {e}")
OuterExcept(l) == Append(l, Line("p_error", None))

\* Line 27-28: except Exception as e: print(f"Error with backend {backend}: {e}")
InnerExcept(l, b) == Append(l, Line("p_error_backend", b))

\* What a write that raised may leave of test_output.wav: nothing new, or a
\* partially written file.
FailedWriteLeaves(exists) == {exists, TRUE}

\* Process start: nothing imported yet, nothing printed, and a working
\* directory that holds no test_output.wav.
Init ==
    /\ pc = "imports"
    /\ backends \in BackendLists
    /\ i = 0
    /\ fileExists = FALSE
    /\ log = << >>

----------------------------------------------------------------------------
(* The statements of the script, in program order. *)

\* Lines 2-5 and 8: the four imports, outside any try, and the header line.
\* An import that raises ends the process with an uncaught ImportError.
Imports ==
    /\ pc = "imports"
    /\ \E ok \in BOOLEAN :
        IF ok
        THEN /\ log' = log \o <<Call("import", None, TRUE), Line("p_header", None)>>
             /\ pc' = "zeros"
        ELSE /\ log' = Append(log, Call("import", None, FALSE))
             /\ pc' = "crashed"
    /\ UNCHANGED <<backends, i, fileExists>>

\* Variant: torch.zeros called before the outer try is entered.
ConstructBuffer_Unguarded ==
    /\ pc = "zeros"
    /\ \E ok \in BOOLEAN :
        IF ok
        THEN /\ log' = Append(log, Call("zeros", None, TRUE))
             /\ pc' = "list"
        ELSE /\ log' = Append(log, Call("zeros", None, FALSE))
             /\ pc' = "crashed"
    /\ UNCHANGED <<backends, i, fileExists>>

\* Variant: the failure of torch.zeros is reported and the script goes on.
ConstructBuffer_Swallowed ==
    /\ pc = "zeros"
    /\ \E ok \in BOOLEAN :
        IF ok
        THEN /\ log' = Append(log, Call("zeros", None, TRUE))
             /\ pc' = "list"
        ELSE /\ log' = OuterExcept(Append(log, Call("zeros", None, FALSE)))
             /\ pc' = "list"
    /\ UNCHANGED <<backends, i, fileExists>>

\* Lines 9-13: try: sample_rate, test_data = torch.zeros(2, sample_rate), test_file.
ConstructBuffer ==
    /\ pc = "zeros"
    /\ \E ok \in BOOLEAN :
        IF ok
        THEN /\ log' = Append(log, Call("zeros", None, TRUE))
             /\ pc' = "list"
        ELSE /\ log' = OuterExcept(Append(log, Call("zeros", None, FALSE)))
             /\ pc' = "done"
    /\ UNCHANGED <<backends, i, fileExists>>

\* Line 16: print(f"Available torchaudio backends: {torchaudio.list_audio_backends()}")
ListBackends ==
    /\ pc = "list"
    /\ \E ok \in BOOLEAN :
        IF ok
        THEN /\ log' = log \o <<Call("list_audio_backends", None, TRUE),
                                Line("p_available", None)>>
             /\ pc' = "current"
        ELSE /\ log' = OuterExcept(Append(log, Call("list_audio_backends", None, FALSE)))
             /\ pc' = "done"
    /\ UNCHANGED <<backends, i, fileExists>>

\* Line 17: print(f"Current backend: {torchaudio.get_audio_backend()}")
GetBackend ==
    /\ pc = "current"
    /\ \E ok \in BOOLEAN :
        IF ok
        THEN /\ log' = log \o <<Call("get_audio_backend", None, TRUE),
                                Line("p_current", None)>>
             /\ pc' = "for_list"
        ELSE /\ log' = OuterExcept(Append(log, Call("get_audio_backend", None, FALSE)))
             /\ pc' = "done"
    /\ UNCHANGED <<backends, i, fileExists>>

\* Line 20, evaluated once: the iterable torchaudio.list_audio_backends().
ForList ==
    /\ pc = "for_list"
    /\ \E ok \in BOOLEAN :
        IF ok
        THEN /\ log' = Append(log, Call("list_audio_backends", None, TRUE))
             /\ pc' = "for_next"
        ELSE /\ log' = OuterExcept(Append(log, Call("list_audio_backends", None, FALSE)))
             /\ pc' = "done"
    /\ UNCHANGED <<backends, i, fileExists>>

\* Line 20, each time round: take the next backend and print line 22, or, the
\* list exhausted, leave the loop and print line 31.
ForNext ==
    /\ pc = "for_next"
    /\ IF i < Len(backends)
       THEN /\ i' = i + 1
            /\ log' = Append(log, Line("p_testing", backends[i + 1]))
            /\ pc' = "set_backend"
       ELSE /\ i' = i
            /\ log' = Append(log, Line("p_direct_header", None))
            /\ pc' = "sf_write"
    /\ UNCHANGED <<backends, fileExists>>

\* Variant: the failure of set_audio_backend is reported and the save is
\* attempted all the same.
SetBackend_WriteAnyway ==
    /\ pc = "set_backend"
    /\ \E ok \in BOOLEAN :
        IF ok
        THEN /\ log' = Append(log, Call("set_audio_backend", backend, TRUE))
             /\ pc' = "save"
        ELSE /\ log' = InnerExcept(Append(log, Call("set_audio_backend", backend, FALSE)),
                                   backend)
             /\ pc' = "save"
    /\ UNCHANGED <<backends, i, fileExists>>

\* Line 23: torchaudio.set_audio_backend(backend)
SetBackend ==
    /\ pc = "set_backend"
    /\ \E ok \in BOOLEAN :
        IF ok
        THEN /\ log' = Append(log, Call("set_audio_backend", backend, TRUE))
             /\ pc' = "save"
        ELSE /\ log' = InnerExcept(Append(log, Call("set_audio_backend", backend, FALSE)),
                                   backend)
             /\ pc' = "for_next"
    /\ UNCHANGED <<backends, i, fileExists>>

\* Variant: a failed save leaves the loop.
Save_BreakOnError ==
    /\ pc = "save"
    /\ \E ok \in BOOLEAN :
        IF ok
        THEN /\ fileExists' = TRUE
             /\ log' = log \o <<Call("save", backend, TRUE), Line("p_success", backend)>>
             /\ pc' = "remove"
        ELSE /\ fileExists' \in FailedWriteLeaves(fileExists)
             /\ log' = Append(InnerExcept(Append(log, Call("save", backend, FALSE)), backend),
                              Line("p_direct_header", None))
             /\ pc' = "sf_write"
    /\ UNCHANGED <<backends, i>>

\* Variant: line 26 missing.
Save_NoRemove ==
    /\ pc = "save"
    /\ \E ok \in BOOLEAN :
        IF ok
        THEN /\ fileExists' = TRUE
             /\ log' = log \o <<Call("save", backend, TRUE), Line("p_success", backend)>>
             /\ pc' = "for_next"
        ELSE /\ fileExists' \in FailedWriteLeaves(fileExists)
             /\ log' = InnerExcept(Append(log, Call("save", backend, FALSE)), backend)
             /\ pc' = "for_next"
    /\ UNCHANGED <<backends, i>>

\* Variant: line 25 missing.
Save_NoReport ==
    /\ pc = "save"
    /\ \E ok \in BOOLEAN :
        IF ok
        THEN /\ fileExists' = TRUE
             /\ log' = Append(log, Call("save", backend, TRUE))
             /\ pc' = "remove"
        ELSE /\ fileExists' \in FailedWriteLeaves(fileExists)
             /\ log' = InnerExcept(Append(log, Call("save", backend, FALSE)), backend)
             /\ pc' = "for_next"
    /\ UNCHANGED <<backends, i>>

\* Lines 24-25: torchaudio.save(test_file, test_data, sample_rate), then the
\* success line.
Save ==
    /\ pc = "save"
    /\ \E ok \in BOOLEAN :
        IF ok
        THEN /\ fileExists' = TRUE
             /\ log' = log \o <<Call("save", backend, TRUE), Line("p_success", backend)>>
             /\ pc' = "remove"
        ELSE /\ fileExists' \in FailedWriteLeaves(fileExists)
             /\ log' = InnerExcept(Append(log, Call("save", backend, FALSE)), backend)
             /\ pc' = "for_next"
    /\ UNCHANGED <<backends, i>>

\* Line 26: os.remove(test_file) inside the per-backend try.  It returns only
\* if the file was there and is now gone; if it raises the file is untouched.
RemoveInLoop ==
    /\ pc = "remove"
    /\ \E ok \in BOOLEAN :
        IF ok
        THEN /\ fileExists
             /\ fileExists' = FALSE
             /\ log' = Append(log, Call("remove", backend, TRUE))
             /\ pc' = "for_next"
        ELSE /\ fileExists' = fileExists
             /\ log' = InnerExcept(Append(log, Call("remove", backend, FALSE)), backend)
             /\ pc' = "for_next"
    /\ UNCHANGED <<backends, i>>

\* Lines 32-33: soundfile.write(test_file, test_data.numpy().T, sample_rate),
\* then the success line.
SoundfileWrite ==
    /\ pc = "sf_write"
    /\ \E ok \in BOOLEAN :
        IF ok
        THEN /\ fileExists' = TRUE
             /\ log' = log \o <<Call("sf_write", Direct, TRUE),
                                Line("p_direct_success", None)>>
             /\ pc' = "sf_remove"
        ELSE /\ fileExists' \in FailedWriteLeaves(fileExists)
             /\ log' = OuterExcept(Append(log, Call("sf_write", Direct, FALSE)))
             /\ pc' = "done"
    /\ UNCHANGED <<backends, i>>

\* Variant: the completion line printed in a finally clause.
RemoveFinal_Finally ==
    /\ pc = "sf_remove"
    /\ \E ok \in BOOLEAN :
        IF ok
        THEN /\ fileExists
             /\ fileExists' = FALSE
             /\ log' = log \o <<Call("remove", Direct, TRUE), Line("p_completed", None)>>
             /\ pc' = "done"
        ELSE /\ fileExists' = fileExists
             /\ log' = Append(OuterExcept(Append(log, Call("remove", Direct, FALSE))),
                              Line("p_completed", None))
             /\ pc' = "done"
    /\ UNCHANGED <<backends, i>>

\* Variant: the failure of the last os.remove is ignored.
RemoveFinal_Ignored ==
    /\ pc = "sf_remove"
    /\ \E ok \in BOOLEAN :
        IF ok
        THEN /\ fileExists
             /\ fileExists' = FALSE
             /\ log' = log \o <<Call("remove", Direct, TRUE), Line("p_completed", None)>>
             /\ pc' = "done"
        ELSE /\ fileExists' = fileExists
             /\ log' = log \o <<Call("remove", Direct, FALSE), Line("p_completed", None)>>
             /\ pc' = "done"
    /\ UNCHANGED <<backends, i>>

\* Lines 34-36: os.remove(test_file), then the completion line.
RemoveFinal ==
    /\ pc = "sf_remove"
    /\ \E ok \in BOOLEAN :
        IF ok
        THEN /\ fileExists
             /\ fileExists' = FALSE
             /\ log' = log \o <<Call("remove", Direct, TRUE), Line("p_completed", None)>>
             /\ pc' = "done"
        ELSE /\ fileExists' = fileExists
             /\ log' = OuterExcept(Append(log, Call("remove", Direct, FALSE)))
             /\ pc' = "done"
    /\ UNCHANGED <<backends, i>>

Next ==
    \/ Imports
    \/ ConstructBuffer
    \/ ListBackends
    \/ GetBackend
    \/ ForList
    \/ ForNext
    \/ SetBackend
    \/ Save
    \/ RemoveInLoop
    \/ SoundfileWrite
    \/ RemoveFinal

Spec == Init /\ [][Next]_vars

----------------------------------------------------------------------------
(* Vocabulary of the properties. *)

\* The process has ended: normally, or with an uncaught exception.
Terminated == pc \in {"done", "crashed"}

\* Positions of the log holding an entry of kind k about backend b.
At(k, b) == {p \in DOMAIN log : log[p].k = k /\ log[p].b = b}

\* Positions of the log holding an entry of kind k.
AtKind(k) == {p \in DOMAIN log : log[p].k = k}

\* Positions of the calls of kind k that raised.
Raised(k) == {p \in AtKind(k) : ~log[p].ok}

\* The per-backend outcome lines about backend b, success or failure.
OutcomeLines(b) == At("p_success", b) \cup At("p_error_backend", b)

\* The for loop has run to its end.
LoopCompleted == AtKind("p_direct_header") # {}

\* The set of backends the environment reports.
Available == {backends[n] : n \in DOMAIN backends}

\* An attempt is about to begin: a per-backend one, or the direct one.
AtAttemptStart == pc \in {"set_backend", "sf_write"}

\* The backend of the attempt before the one about to begin, if there is one.
HasPrevious == AtAttemptStart /\ (IF pc = "set_backend" THEN i >= 2 ELSE i >= 1)
Previous == IF pc = "set_backend" THEN backends[i - 1] ELSE backends[i]

TypeOK ==
    /\ pc \in {"imports", "zeros", "list", "current", "for_list", "for_next",
               "set_backend", "save", "remove", "sf_write", "sf_remove",
               "done", "crashed"}
    /\ backends \in BackendLists
    /\ i \in 0..Len(backends)
    /\ fileExists \in BOOLEAN
    /\ pc \in {"set_backend", "save", "remove"} => i >= 1

\* Number of elements of a set of log positions.
N(S) == Cardinality(S)

\* Every call up to the for loop returned: the imports, torch.zeros, both
\* list_audio_backends calls and get_audio_backend.
PreambleOk ==
    /\ Raised("import") = {}
    /\ Raised("zeros") = {}
    /\ Raised("list_audio_backends") = {}
    /\ Raised("get_audio_backend") = {}

\* The failures the outer handler is there for: of torch.zeros, of the
\* environment query, of soundfile.write and of the os.remove after it.
OuterFailures ==
    Raised("zeros") \cup Raised("list_audio_backends") \cup Raised("get_audio_backend")
        \cup Raised("sf_write") \cup {p \in Raised("remove") : log[p].b = Direct}

\* The two final reports: the completion line and the outer error line.
FinalReports == AtKind("p_completed") \cup AtKind("p_error")

\* The write of the attempt before the one about to begin returned.
PreviousWriteOk == HasPrevious /\ \E p \in At("save", Previous) : log[p].ok

----------------------------------------------------------------------------
(* C1.  Claim: when the environment query succeeds, the loop over N        *)
(* backends prints exactly N per-backend outcome lines (success or         *)
(* failure), exactly one per backend, whichever of selection, write or     *)
(* deletion fails.  The code prints two for a backend whose save returns   *)
(* and whose os.remove raises.                                             *)
C1_OneOutcomeLinePerBackend ==
    LoopCompleted =>
        /\ \A b \in Available : N(OutcomeLines(b)) = 1
        /\ N(AtKind("p_success") \cup AtKind("p_error_backend")) = Len(backends)

(* C2, as claimed: every available backend gets exactly one selection and  *)
(* exactly one write, also when its selection fails.                       *)
C2_OneSelectionOneWrite ==
    LoopCompleted =>
        \A b \in Available :
            /\ N(At("set_audio_backend", b)) = 1
            /\ N(At("save", b)) = 1

(* C2, amended: when the environment query succeeds, every enumerated      *)
(* backend gets exactly one selection, and exactly one write if that       *)
(* selection returned and none if it raised; no backend is ever selected   *)
(* or written twice, and none outside the enumeration is touched.          *)
C2_OneSelectionWriteIfSelected ==
    /\ \A b \in BackendNames :
        /\ N(At("set_audio_backend", b)) <= 1
        /\ N(At("save", b)) <= 1
        /\ b \notin Available => At("set_audio_backend", b) \cup At("save", b) = {}
        /\ \A p \in At("save", b) :
            \E q \in At("set_audio_backend", b) : q < p /\ log[q].ok
    /\ LoopCompleted =>
        \A b \in Available :
            /\ N(At("set_audio_backend", b)) = 1
            /\ N(At("save", b)) =
                 IF \E q \in At("set_audio_backend", b) : log[q].ok THEN 1 ELSE 0

\* C2 witness: a completed loop in which one selection raised, so that
\* backend was not written, and another backend was written.
C2_Witness ==
    /\ LoopCompleted
    /\ \E b1, b2 \in Available :
        /\ \E q \in At("set_audio_backend", b1) : ~log[q].ok
        /\ At("save", b1) = {}
        /\ At("save", b2) # {}

\* Every backend's attempt is over before position p of the log, and no
\* per-backend entry comes after p.
LoopOverBefore(p) ==
    /\ \A b \in Available :
        \E q \in At("p_testing", b) : q < p /\ \E r \in OutcomeLines(b) : q < r /\ r < p
    /\ \A q \in DOMAIN log :
        q > p => log[q].k \notin {"p_testing", "set_audio_backend", "save",
                                  "p_success", "p_error_backend"}

(* C3, as claimed: the direct soundfile write is attempted exactly once in *)
(* every run, and only after all per-backend attempts.                     *)
C3_DirectWriteOnceEveryRun ==
    /\ Terminated => N(AtKind("sf_write")) = 1
    /\ \A p \in AtKind("sf_write") : LoopOverBefore(p)

(* C3, amended: the direct soundfile write is attempted at most once,      *)
(* only after all per-backend attempts are over, and exactly once in every *)
(* run in which the imports, the buffer construction and the environment   *)
(* query return, whatever the per-backend attempts did.                    *)
C3_DirectWriteOnceAfterPreamble ==
    /\ N(AtKind("sf_write")) <= 1
    /\ \A p \in AtKind("sf_write") : LoopOverBefore(p)
    /\ Terminated =>
        (N(AtKind("sf_write")) = 1 <=> PreambleOk)

\* C3 witness: a finished run over two backends, one of whose saves raised,
\* with the direct write made.
C3_Witness ==
    /\ Terminated
    /\ Len(backends) = 2
    /\ Raised("save") # {}
    /\ N(AtKind("sf_write")) = 1

(* C4, as claimed: at the start of every attempt that follows a successful *)
(* write, test_output.wav does not exist.                                  *)
C4_NoFileAfterSuccessfulWrite ==
    PreviousWriteOk => ~fileExists

(* C4, amended: an attempt whose write succeeded calls os.remove before    *)
(* the next attempt begins, and if that os.remove returned the file does   *)
(* not exist when the next attempt begins.                                 *)
C4_RemoveCalledAfterSuccessfulWrite ==
    PreviousWriteOk =>
        /\ N(At("remove", Previous)) = 1
        /\ \A p \in At("remove", Previous) : log[p].ok => ~fileExists

\* C4 witness: the second attempt is about to begin, the first one's write
\* and os.remove both returned.
C4_Witness ==
    /\ PreviousWriteOk
    /\ \E p \in At("remove", Previous) : log[p].ok

\* Every call inside the outer try that raised is followed at once by an
\* error line.
FailuresReported ==
    \A p \in DOMAIN log :
        (log[p].k \notin {"import"} /\ ~log[p].ok) =>
            /\ p + 1 \in DOMAIN log
            /\ log[p + 1].k \in {"p_error", "p_error_backend"}

(* C5, as claimed: every failure is caught and reported, and every run     *)
(* ends normally, without an uncaught exception.                           *)
C5_NoUncaughtException ==
    /\ pc # "crashed"
    /\ FailuresReported

(* C5, amended: every failure of buffer construction, the environment      *)
(* query, the per-backend loop or the direct write is caught and reported; *)
(* a run ends with an uncaught exception only if one of the imports of     *)
(* lines 2-5 raised, and a run that has not ended can take a step.         *)
C5_OnlyImportsEscape ==
    /\ FailuresReported
    /\ pc = "crashed" => Raised("import") # {}
    /\ ~Terminated => ENABLED Next

\* C5 witness: a run that ended normally after a per-backend failure and a
\* failure of the direct write.
C5_Witness ==
    /\ pc = "done"
    /\ Raised("save") # {}
    /\ Raised("sf_write") # {}

(* C6.  Claim: at the start of each attempt and at the end of the run,     *)
(* test_output.wav exists only if some earlier os.remove raised.  The code *)
(* leaves the file of a write that raised after creating it.               *)
C6_FileOnlyAfterFailedRemove ==
    ((AtAttemptStart \/ Terminated) /\ fileExists) => Raised("remove") # {}

(* C7: if the buffer construction fails, exactly one outer error line is   *)
(* printed, no per-backend line, no write is attempted, and the run ends   *)
(* normally.                                                               *)
C7_BufferFailure ==
    Raised("zeros") # {} =>
        /\ pc = "done"
        /\ N(AtKind("p_error")) = 1
        /\ log[Len(log)] = Line("p_error", None)
        /\ AtKind("p_testing") \cup AtKind("p_success") \cup AtKind("p_error_backend") = {}
        /\ AtKind("save") \cup AtKind("sf_write") = {}
        /\ AtKind("p_completed") = {}

\* C7 witness: torch.zeros raised.
C7_Witness == Raised("zeros") # {} /\ Terminated

\* The run's last output is its one final report; it is the completion line
\* exactly if no failure reached the outer handler.
OneFinalReport ==
    /\ N(FinalReports) = 1
    /\ Len(log) \in FinalReports
    /\ AtKind("p_completed") # {} <=> OuterFailures = {}
    /\ (Raised("sf_write") # {} \/ \E p \in Raised("remove") : log[p].b = Direct) =>
        /\ AtKind("p_error") # {}
        /\ AtKind("p_completed") = {}

(* C8, as claimed: a run ends with exactly one final report, the           *)
(* completion line or one outer error line; the completion line if and     *)
(* only if the outer handler caught nothing.                               *)
C8_EveryRunOneFinalReport ==
    Terminated => OneFinalReport

(* C8, amended: a run in which the imports of lines 2-5 return ends with   *)
(* exactly one final report, the completion line if and only if the outer  *)
(* handler caught nothing, the error line if the direct write or the       *)
(* deletion after it raised; no final report is printed before the end.    *)
C8_OneFinalReportAfterImports ==
    /\ (Terminated /\ Raised("import") = {}) => OneFinalReport
    /\ ~Terminated => FinalReports = {}

\* C8 witness: a run ended by the failure of the os.remove that follows a
\* successful direct write.
C8_Witness ==
    /\ Terminated
    /\ \E p \in Raised("remove") : log[p].b = Direct

(* C9: every os.remove comes right after the success line of the same      *)
(* attempt, and an attempt whose selection or write raised calls no        *)
(* os.remove.                                                              *)
C9_RemoveOnlyAfterSuccessLine ==
    /\ \A p \in AtKind("remove") :
        /\ p > 1
        /\ log[p - 1] = IF log[p].b = Direct
                        THEN Line("p_direct_success", None)
                        ELSE Line("p_success", log[p].b)
    /\ \A b \in Available :
        (\E q \in At("set_audio_backend", b) \cup At("save", b) : ~log[q].ok) =>
            At("remove", b) = {}
    /\ Raised("sf_write") # {} => At("remove", Direct) = {}

\* C9 witness: one backend's file was removed, another backend's save
\* raised, and the direct attempt's file was removed.
C9_Witness ==
    /\ \E b \in Available : At("remove", b) # {}
    /\ Raised("save") # {}
    /\ At("remove", Direct) # {}

(* C10: whenever the completion line is printed, test_output.wav does not  *)
(* exist at the end of the run, whatever the per-backend attempts left.    *)
C10_NoFileOnCompletion ==
    AtKind("p_completed") # {} => (pc = "done" /\ ~fileExists)

\* C10 witness: the completion line after a per-backend os.remove raised,
\* leaving the file, and another backend's save raised.
C10_Witness ==
    /\ AtKind("p_completed") # {}
    /\ \E p \in Raised("remove") : log[p].b # Direct
    /\ Raised("save") # {}

====
